---- MODULE Spec2Model ----
(***************************************************************************)
(* Model of the pggateway Session (src/config.go, second file of the       *)
(* listing, lines 132-398): parseStartupMessage, Handle, the               *)
(* authentication hand-off with GetUserPassword, proxy() with its          *)
(* condition variable, the two forwarding goroutines proxyClientMessages   *)
(* and proxyServerMessages, and Close.                                     *)
(*                                                                         *)
(* Connections are modelled by what has been read from them so far and by  *)
(* the write calls made on them.  The peer decides, at each read, whether  *)
(* the read yields a message, end-of-stream or another error.              *)
(***************************************************************************)
EXTENDS Naturals, Integers, Sequences, FiniteSets, TLC

VARIABLES
    limits,        \* what the peers, the authenticator and the listener may do in this run
    hpc,           \* position of the goroutine running Handle()/proxy()
    ret,           \* value returned by Handle(): "none" until it returns
    authCalls,     \* number of calls of plugins.Authenticate
    authRes,       \* what plugins.Authenticate returned
    prompts,       \* number of calls of GetUserPassword
    gupRet,        \* the last call of GetUserPassword and what it returned
    password,      \* Session.password
    hsParsed,      \* client messages parsed before the forwarding loop
    user,          \* Session.User
    database,      \* Session.Database
    startupRet,    \* what the last parseStartupMessage returned
    client,        \* state of the client connection s.client
    stopped,       \* Session.stopped
    target,        \* state of the backend connection s.target
    closeCalls,    \* number of calls of Close()
    errs,          \* the slice errs of proxy()
    notified,      \* a Broadcast has reached the registered waiter
    firstErr,      \* history: the first error a direction appended to errs
    cpc,           \* position of proxyClientMessages
    cErrs,         \* its parameter errs (a copy of the slice header)
    cMsg,          \* its local msg
    cParsed,       \* client messages parsed so far (ParseClientRequest)
    cLog,          \* one entry per call of ParseClientRequest
    cWriteErr,     \* a write to s.target has returned an error
    spc,           \* position of proxyServerMessages
    sErrs,         \* its parameter errs (a copy of the slice header)
    buf,           \* its local buf
    sParsed,       \* server messages parsed so far (ParseServerResponse)
    sLog,          \* one entry per call of ParseServerResponse
    sWriteErr,     \* a write to s.client has returned an error
    clientWrites,  \* write calls made on s.client, in order
    targetWrites   \* write calls made on s.target, in order

vars == <<limits, hpc, ret, authCalls, authRes, prompts, gupRet, password,
          hsParsed, user, database, startupRet, client, stopped, target,
          closeCalls, errs, notified, firstErr, cpc, cErrs, cMsg, cParsed,
          cLog, cWriteErr, spc, sErrs, buf, sParsed, sLog, sWriteErr,
          clientWrites, targetWrites>>

hsVars == <<authCalls, authRes, prompts, gupRet, password, hsParsed>>
sessVars == <<user, database, startupRet, client>>
ctlVars == <<hpc, ret, errs>>
envVars == <<limits, firstErr>>
cVars == <<cpc, cErrs, cMsg, cParsed, cLog, cWriteErr, targetWrites>>
sVars == <<spc, sErrs, buf, sParsed, sLog, sWriteErr, clientWrites>>

----------------------------------------------------------------------------
(* Bounds of the model *)

\* messages the backend may send in a run of Spec
MaxServerMsgs == 2
\* messages the client may send in a run of Spec
MaxClientMsgs == 2
\* messages the backend may send in a run of BatchSpec
MaxBatchMsgs == 20
\* messages of a BatchSpec run that are not DataRow
MaxSyncMsgs == 1
\* calls of GetUserPassword the authenticator may make
MaxPrompts == 1
\* calls of Close() the listener may make
MaxCloseCalls == 2

(* Program constants *)

\* len(buf) > 15
FlushThreshold == 15

----------------------------------------------------------------------------
(* Values *)

Nil == "nil"
EOF == "io.EOF"
AuthErrors == {"auth backend unreachable", "auth plugin failure"}
ErrClientParse == "client parse error"
ErrServerParse == "server parse error"
ErrClientWrite == "client write error"
ErrExpectedPassword == "expected password message"

NoMsg == [t |-> "none", method |-> "none", n |-> 0]

ServerMsgKinds ==
    { <<"ReadyForQuery", "none">>,
      <<"AuthenticationRequest", "OK">>,
      <<"AuthenticationRequest", "MD5">>,
      <<"DataRow", "none">> }

ClientMsgKinds ==
    { <<"Query", "none">>, <<"Termination", "none">>,
      <<"PasswordMessage", "none">> }

Msg(kind, i) == [t |-> kind[1], method |-> kind[2], n |-> i]

\* option values a StartupMessage may carry
Users == {"alice", "bob"}
Databases == {"app"}

\* the option maps of a StartupMessage: user and database may each be missing
StartupOptions ==
    UNION { [ks -> Users \cup Databases] : ks \in SUBSET {"user", "database"} }

WellFormedOptions(o) ==
    /\ "user" \in DOMAIN o => o["user"] \in Users
    /\ "database" \in DOMAIN o => o["database"] \in Databases

StartupMsg(ssl, opts, i) ==
    [t |-> "StartupMessage", method |-> "none", n |-> i, ssl |-> ssl,
     opts |-> opts]

\* value of startupRet before parseStartupMessage has been called
NoStartup == [msg |-> NoMsg, err |-> "none"]

ErrNoUser == "no username sent with startup message"
ErrNoDatabase == "no database name sent with startup message"
ErrUnexpected == "unexpected message type"

\* value of authRes before Authenticate has returned
NoResult == [success |-> FALSE, err |-> "none"]

FatalError == [t |-> "Error", method |-> "Fatal", n |-> 0]

\* generateSalt(): the salt of this session
Salt == "session salt"

AuthRequest(method, salt) ==
    [t |-> "AuthenticationRequest", method |-> method, n |-> 0, salt |-> salt]

\* the methods GetUserPassword may be asked for
AuthMethods == {"MD5", "Plain"}

\* a call of GetUserPassword: its argument and the values it returned
GupCall(method, auth, pwd, err) ==
    [method |-> method, auth |-> auth, pwd |-> pwd, err |-> err]

\* value of gupRet before GetUserPassword has been called
NoGup == GupCall("none", NoMsg, NoMsg, "none")

Last(q) == q[Len(q)]

RECURSIVE Flatten(_)
Flatten(batches) ==
    IF batches = <<>> THEN <<>>
    ELSE Head(batches).msgs \o Flatten(Tail(batches))

WritesBy(writes, who) == SelectSeq(writes, LAMBDA w : w.by = who)

IsSync(m) == m.t # "DataRow"

SyncCount(s) == Len(SelectSeq(s, IsSync))

----------------------------------------------------------------------------
(* Helpers of the Session *)

\* s.stopped is written by proxy() and read by the two goroutines without
\* synchronisation: a read made once the flag is set may still see false.
ReadStopped(flag) == IF flag THEN {TRUE, FALSE} ELSE {FALSE}

\* sync.Cond.Broadcast: wakes the goroutines registered by Wait at this
\* moment; with nobody registered it has no effect.
Broadcast(h, n) == IF h = "waiting" THEN TRUE ELSE n

\* variant: the test of s.stopped is inverted
ParseLog_InvertedTest(err, seen) ==
    IF err = EOF THEN "none"
    ELSE IF err # Nil THEN (IF seen THEN "error" ELSE "none")
    ELSE "debug"

\* variant: end-of-stream takes the same path as any other error
ParseLog_EOFLogged(err, seen) ==
    IF err # Nil THEN (IF ~seen THEN "error" ELSE "none")
    ELSE "debug"

\* the StartupMessages a client can send as its message number i
StartupMsgs(i) ==
    { StartupMsg(ssl, o, i) :
        ssl \in BOOLEAN, o \in { oo \in StartupOptions : WellFormedOptions(oo) } }

\* what parseStartupMessage returns, and the User and Database it leaves
StartupResult(msg, err, u, d) ==
    [msg |-> msg, err |-> err, user |-> u, database |-> d]

\* variant: the options are extracted from an SSL request too
ParseStartup_NoSSLTest(r, u, d) ==
    IF r.err # Nil THEN StartupResult(NoMsg, r.err, u, d)
    ELSE IF r.msg.t # "StartupMessage"
    THEN StartupResult(NoMsg, ErrUnexpected, u, d)
    ELSE IF "user" \notin DOMAIN r.msg.opts
    THEN StartupResult(NoMsg, ErrNoUser, Nil, d)
    ELSE IF "database" \notin DOMAIN r.msg.opts
    THEN StartupResult(NoMsg, ErrNoDatabase, r.msg.opts["user"], Nil)
    ELSE StartupResult(r.msg, Nil, r.msg.opts["user"], r.msg.opts["database"])

\* parseStartupMessage once ParseClientRequest has returned r, with u and d
\* the session's User and Database; a failed map lookup assigns nil
ParseStartup(r, u, d) ==
    IF r.err # Nil THEN StartupResult(NoMsg, r.err, u, d)
    ELSE IF r.msg.t # "StartupMessage"
    THEN StartupResult(NoMsg, ErrUnexpected, u, d)
    ELSE IF r.msg.ssl THEN StartupResult(r.msg, Nil, u, d)
    ELSE IF "user" \notin DOMAIN r.msg.opts
    THEN StartupResult(NoMsg, ErrNoUser, Nil, d)
    ELSE IF "database" \notin DOMAIN r.msg.opts
    THEN StartupResult(NoMsg, ErrNoDatabase, r.msg.opts["user"], Nil)
    ELSE StartupResult(r.msg, Nil, r.msg.opts["user"], r.msg.opts["database"])

\* The log event of ParseClientRequest / ParseServerResponse for a parse
\* that returned err, seen being the value read from s.stopped.
ParseLog(err, seen) ==
    IF err = EOF THEN "none"
    ELSE IF err # Nil THEN (IF ~seen THEN "error" ELSE "none")
    ELSE "debug"

LogEntry(err, seen) == [res |-> err, log |-> ParseLog(err, seen)]

\* pgproto.ParseServerMessage(s.target): what a read of the backend
\* connection can yield once already parsed messages are `parsed`.
ServerReads(parsed, conn, lim) ==
    IF conn # "open"
    THEN { [msg |-> NoMsg, err |-> ErrServerParse] }
    ELSE { [msg |-> Msg(k, Len(parsed) + 1), err |-> Nil] :
             k \in { kk \in ServerMsgKinds :
                       /\ Len(parsed) < lim.srv
                       /\ \/ kk[1] = "DataRow"
                          \/ SyncCount(parsed) < lim.sync } }
         \cup { [msg |-> NoMsg, err |-> EOF],
                [msg |-> NoMsg, err |-> ErrServerParse] }

\* pgproto.ParseClientMessage(s.client)
ClientReads(parsed, lim) ==
    { [msg |-> Msg(k, Len(parsed) + 1), err |-> Nil] :
        k \in { kk \in ClientMsgKinds : Len(parsed) < lim.cli } }
    \cup { [msg |-> NoMsg, err |-> EOF] }
    \cup { [msg |-> NoMsg, err |-> ErrClientParse] : x \in { y \in {1} : lim.clientFails } }

\* variant: the threshold test is one message late
ShouldFlush_Late(msg, b) ==
    LET flush == CASE msg.t = "ReadyForQuery" -> TRUE
                   [] msg.t = "AuthenticationRequest" -> msg.method # "OK"
                   [] OTHER -> FALSE
    IN flush \/ Len(b) > FlushThreshold + 1

\* variant: the threshold test is one message early
ShouldFlush_Early(msg, b) ==
    LET flush == CASE msg.t = "ReadyForQuery" -> TRUE
                   [] msg.t = "AuthenticationRequest" -> msg.method # "OK"
                   [] OTHER -> FALSE
    IN flush \/ Len(b) >= FlushThreshold

\* variant: the ReadyForQuery case is missing
ShouldFlush_NoReady(msg, b) ==
    LET flush == CASE msg.t = "AuthenticationRequest" -> msg.method # "OK"
                   [] OTHER -> FALSE
    IN flush \/ Len(b) > FlushThreshold

\* variant: every AuthenticationRequest flushes, whatever its method
ShouldFlush_AnyAuth(msg, b) ==
    LET flush == CASE msg.t = "ReadyForQuery" -> TRUE
                   [] msg.t = "AuthenticationRequest" -> TRUE
                   [] OTHER -> FALSE
    IN flush \/ Len(b) > FlushThreshold

\* the flush decision of proxyServerMessages for msg just appended to b
ShouldFlush(msg, b) ==
    LET flush == CASE msg.t = "ReadyForQuery" -> TRUE
                   [] msg.t = "AuthenticationRequest" -> msg.method # "OK"
                   [] OTHER -> FALSE
    IN flush \/ Len(b) > FlushThreshold

Write(by, msgs) == [by |-> by, msgs |-> msgs]

\* what a write on a connection in state conn can return: TRUE for nil
WriteOutcomes(conn, lim) ==
    IF conn # "open" THEN {FALSE}
    ELSE IF lim.writeFaults THEN {TRUE, FALSE}
    ELSE {TRUE}

----------------------------------------------------------------------------
(* NewSession *)

InitFields ==
    /\ ret = "none"
    /\ authCalls = 0
    /\ authRes = NoResult
    /\ prompts = 0
    /\ gupRet = NoGup
    /\ password = NoMsg
    /\ hsParsed = 0
    /\ startupRet = NoStartup
    /\ client = "open"
    /\ stopped = FALSE
    /\ closeCalls = 0
    /\ errs = <<>>
    /\ notified = FALSE
    /\ firstErr = "none"
    /\ cpc = "idle"
    /\ cErrs = <<>>
    /\ cMsg = NoMsg
    /\ cParsed = <<>>
    /\ cLog = <<>>
    /\ cWriteErr = FALSE
    /\ spc = "idle"
    /\ sErrs = <<>>
    /\ buf = <<>>
    /\ sParsed = <<>>
    /\ sLog = <<>>
    /\ sWriteErr = FALSE
    /\ clientWrites = <<>>
    /\ targetWrites = <<>>

\* NewSession(startup, user, database, isSSL, client, target, plugins)
InitSession ==
    /\ hpc = "start"
    /\ user = "alice"
    /\ database = "app"
    /\ target = "open"
    /\ InitFields

\* A session that has a client connection only: the startup message is
\* still to be parsed and no backend has been dialled.
InitAccepted ==
    /\ hpc = "new"
    /\ user = Nil
    /\ database = Nil
    /\ target = "nil"
    /\ InitFields

\* The runs of Spec: either both peers talk during the forwarding loop, or
\* the authenticator prompts for a password before it.
Scenarios ==
    { [srv |-> MaxServerMsgs, sync |-> MaxServerMsgs, cli |-> MaxClientMsgs,
       prompts |-> 0, closes |-> 1, clientFails |-> TRUE, writeFaults |-> TRUE, methods |-> {"MD5"}],
      [srv |-> 1, sync |-> 1, cli |-> MaxClientMsgs,
       prompts |-> MaxPrompts, closes |-> MaxCloseCalls, clientFails |-> TRUE,
       writeFaults |-> TRUE, methods |-> {"MD5"}] }

\* The runs of BatchSpec: a long backend stream with few synchronisation
\* messages, writes that succeed and a client that sends nothing and at most
\* hangs up, or a short run with a password prompt.
BatchScenarios ==
    { [srv |-> MaxBatchMsgs, sync |-> MaxSyncMsgs, cli |-> 0,
       prompts |-> 0, closes |-> 0, clientFails |-> FALSE,
       writeFaults |-> FALSE, methods |-> {"MD5"}],
      [srv |-> 0, sync |-> 0, cli |-> 1,
       prompts |-> MaxPrompts, closes |-> 1, clientFails |-> TRUE,
       writeFaults |-> TRUE, methods |-> {"MD5"}] }

\* The runs of HandshakeSpec, which follow the session from the first
\* client message on: either the authenticator may ask for either kind of
\* password and the backend sends nothing, or the session is closed after
\* it was rejected or after Handle returned.
HandshakeScenarios ==
    { [srv |-> 0, sync |-> 0, cli |-> MaxClientMsgs,
       prompts |-> MaxPrompts, closes |-> 0, clientFails |-> TRUE,
       writeFaults |-> TRUE, methods |-> AuthMethods],
      [srv |-> 1, sync |-> 1, cli |-> 1,
       prompts |-> 0, closes |-> MaxCloseCalls, clientFails |-> TRUE,
       writeFaults |-> FALSE, methods |-> {"MD5"}] }

Init ==
    /\ limits \in Scenarios
    /\ InitSession

InitBatch ==
    /\ limits \in BatchScenarios
    /\ InitSession

InitHandshake ==
    /\ limits \in HandshakeScenarios
    /\ InitAccepted

----------------------------------------------------------------------------
(* Startup *)

\* parseStartupMessage; after an SSL request the listener upgrades the
\* connection and parses the next message the same way
parseStartupMessage ==
    /\ hpc = "new"
    /\ \E r \in { [msg |-> m, err |-> Nil] :
                    m \in { mm \in StartupMsgs(Len(cParsed) + 1) :
                              Len(cParsed) < limits.cli } }
                 \cup ClientReads(cParsed, limits),
          seen \in ReadStopped(stopped) :
         LET res == ParseStartup(r, user, database) IN
         /\ cLog' = Append(cLog, LogEntry(r.err, seen))
         /\ cParsed' = IF r.err = Nil THEN Append(cParsed, r.msg) ELSE cParsed
         /\ hsParsed' = Len(cParsed')
         /\ startupRet' = [msg |-> res.msg, err |-> res.err]
         /\ user' = res.user
         /\ database' = res.database
         /\ hpc' = IF res.err # Nil THEN "rejected"
                   ELSE IF res.msg.ssl THEN "new"
                   ELSE "parsed"
    /\ UNCHANGED <<envVars, client, ret, errs, authCalls, authRes, prompts,
                   gupRet, password, stopped, target, closeCalls, notified,
                   cpc, cErrs, cMsg, cWriteErr, targetWrites, sVars>>

\* The listener dials the backend for the parsed startup message and hands
\* the session to Handle, or fails to and rejects the client.
Listener_Dial ==
    /\ hpc = "parsed"
    /\ \E ok \in BOOLEAN :
         IF ok THEN hpc' = "start" /\ target' = "open"
               ELSE hpc' = "rejected" /\ UNCHANGED target
    /\ UNCHANGED <<envVars, sessVars, ret, errs, hsVars, stopped, closeCalls,
                   notified, cVars, sVars>>

----------------------------------------------------------------------------
(* Close *)

\* variant: Close closes the client connection as well
Close_ClosesClient ==
    /\ hpc \in {"done", "rejected"}
    /\ closeCalls < limits.closes
    /\ closeCalls' = closeCalls + 1
    /\ target' = IF target # "nil" THEN "closed" ELSE target
    /\ client' = "closed"
    /\ UNCHANGED <<envVars, user, database, startupRet, ctlVars, hsVars,
                   stopped, notified, cVars, sVars>>

\* Close, called by the listener once the session is over
Close ==
    /\ hpc \in {"done", "rejected"}
    /\ closeCalls < limits.closes
    /\ closeCalls' = closeCalls + 1
    /\ target' = IF target # "nil" THEN "closed" ELSE target
    /\ UNCHANGED <<envVars, sessVars, ctlVars, hsVars, stopped, notified, cVars, sVars>>

----------------------------------------------------------------------------
(* Handle *)

\* success, err := s.plugins.Authenticate(s, s.startup): the call
Handle_Authenticate ==
    /\ hpc = "start"
    /\ hpc' = "auth"
    /\ authCalls' = authCalls + 1
    /\ UNCHANGED <<envVars, sessVars, ret, errs, authRes, prompts, gupRet, password, hsParsed,
                   stopped, target, closeCalls, notified, cVars, sVars>>

\* GetUserPassword(method), called by the authenticator:
\* auth := &AuthenticationRequest{method, s.salt}; s.WriteToClient(auth)
GetUserPassword_Write ==
    /\ hpc = "auth"
    /\ prompts < limits.prompts
    /\ prompts' = prompts + 1
    /\ \E method \in limits.methods, ok \in WriteOutcomes(client, limits) :
         /\ clientWrites' = Append(clientWrites,
                 Write("GetUserPassword", <<AuthRequest(method, Salt)>>))
         /\ IF ok THEN /\ hpc' = "pwread"
                       /\ gupRet' = GupCall(method, NoMsg, NoMsg, "none")
                  ELSE /\ hpc' = "auth"
                       /\ gupRet' = GupCall(method, NoMsg, NoMsg, ErrClientWrite)
    /\ UNCHANGED <<envVars, sessVars, ret, errs, authCalls, authRes, password,
                   hsParsed, stopped, target, closeCalls, notified, cVars, spc,
                   sErrs, buf, sParsed, sLog, sWriteErr>>

\* variant: the type assertion on the message read is missing
GetUserPassword_Read_NoTypeCheck ==
    /\ hpc = "pwread"
    /\ hpc' = "auth"
    /\ \E r \in ClientReads(cParsed, limits), seen \in ReadStopped(stopped) :
         /\ cLog' = Append(cLog, LogEntry(r.err, seen))
         /\ cParsed' = IF r.err = Nil THEN Append(cParsed, r.msg) ELSE cParsed
         /\ hsParsed' = Len(cParsed')
         /\ IF r.err # Nil
            THEN /\ gupRet' = GupCall(gupRet.method, NoMsg, NoMsg, r.err)
                 /\ UNCHANGED password
            ELSE /\ gupRet' = GupCall(gupRet.method, Last(clientWrites).msgs[1],
                                      r.msg, Nil)
                 /\ password' = r.msg
    /\ UNCHANGED <<envVars, sessVars, ret, errs, authCalls, authRes, prompts,
                   stopped, target, closeCalls, notified, cpc, cErrs, cMsg,
                   cWriteErr, targetWrites, sVars>>

\* GetUserPassword: msg, err := s.ParseClientRequest() and what follows
GetUserPassword_Read ==
    /\ hpc = "pwread"
    /\ hpc' = "auth"
    /\ \E r \in ClientReads(cParsed, limits), seen \in ReadStopped(stopped) :
         /\ cLog' = Append(cLog, LogEntry(r.err, seen))
         /\ cParsed' = IF r.err = Nil THEN Append(cParsed, r.msg) ELSE cParsed
         /\ hsParsed' = Len(cParsed')
         /\ IF r.err # Nil
            THEN /\ gupRet' = GupCall(gupRet.method, NoMsg, NoMsg, r.err)
                 /\ UNCHANGED password
            ELSE IF r.msg.t # "PasswordMessage"
            THEN /\ gupRet' = GupCall(gupRet.method, NoMsg, NoMsg,
                                      ErrExpectedPassword)
                 /\ UNCHANGED password
            ELSE /\ gupRet' = GupCall(gupRet.method, Last(clientWrites).msgs[1],
                                      r.msg, Nil)
                 /\ password' = r.msg
    /\ UNCHANGED <<envVars, sessVars, ret, errs, authCalls, authRes, prompts,
                   stopped, target, closeCalls, notified, cpc, cErrs, cMsg,
                   cWriteErr, targetWrites, sVars>>

\* variant: the error of Authenticate is not tested before success
Handle_AuthReturn_ErrAsFailure ==
    /\ hpc = "auth"
    /\ \E r \in ({[success |-> TRUE, err |-> Nil],
                  [success |-> FALSE, err |-> Nil]}
                 \cup {[success |-> FALSE, err |-> e] : e \in AuthErrors}) :
         /\ authRes' = r
         /\ IF ~r.success
            THEN hpc' = "authfail" /\ UNCHANGED ret
            ELSE hpc' = "proxy" /\ UNCHANGED ret
    /\ UNCHANGED <<envVars, sessVars, errs, authCalls, prompts, gupRet, password, hsParsed, stopped,
                   target, closeCalls, notified, cVars, sVars>>

\* Authenticate returns (success, err); Handle branches on it
Handle_AuthReturn ==
    /\ hpc = "auth"
    /\ \E r \in ({[success |-> TRUE, err |-> Nil],
                  [success |-> FALSE, err |-> Nil]}
                 \cup {[success |-> FALSE, err |-> e] : e \in AuthErrors}) :
         /\ authRes' = r
         /\ IF r.err # Nil
            THEN hpc' = "done" /\ ret' = r.err
            ELSE IF ~r.success
            THEN hpc' = "authfail" /\ UNCHANGED ret
            ELSE hpc' = "proxy" /\ UNCHANGED ret
    /\ UNCHANGED <<envVars, sessVars, errs, authCalls, prompts, gupRet, password, hsParsed, stopped,
                   target, closeCalls, notified, cVars, sVars>>

\* variant: the return after the Fatal message is missing
Handle_AuthFailed_NoReturn ==
    /\ hpc = "authfail"
    /\ clientWrites' = Append(clientWrites, Write("Handle", <<FatalError>>))
    /\ hpc' = "proxy"
    /\ UNCHANGED <<envVars, sessVars, ret, errs, hsVars, stopped, target, closeCalls,
                   notified, cVars, spc, sErrs, buf, sParsed, sLog, sWriteErr>>

\* s.WriteToClient(errMsg); return nil
Handle_AuthFailed ==
    /\ hpc = "authfail"
    /\ clientWrites' = Append(clientWrites, Write("Handle", <<FatalError>>))
    /\ hpc' = "done"
    /\ ret' = Nil
    /\ UNCHANGED <<envVars, sessVars, errs, hsVars, stopped, target, closeCalls, notified,
                   cVars, spc, sErrs, buf, sParsed, sLog, sWriteErr>>

----------------------------------------------------------------------------
(* proxy *)

\* errs := make([]error, 0); go s.proxyClientMessages(stop, errs);
\* go s.proxyServerMessages(stop, errs): each goroutine receives a copy of
\* the slice header.
proxy_Start ==
    /\ hpc = "proxy"
    /\ hpc' = "wait"
    /\ errs' = <<>>
    /\ cErrs' = <<>>
    /\ sErrs' = <<>>
    /\ cpc' = "check"
    /\ spc' = "check"
    /\ UNCHANGED <<envVars, sessVars, ret, hsVars, stopped, target, closeCalls, notified,
                   cMsg, cParsed, cLog, cWriteErr, targetWrites, buf, sParsed,
                   sLog, sWriteErr, clientWrites>>

\* stop.L.Lock(); stop.Wait(): registers on the notify list and sleeps
proxy_Wait ==
    /\ hpc = "wait"
    /\ hpc' = "waiting"
    /\ notified' = FALSE
    /\ UNCHANGED <<envVars, sessVars, ret, errs, hsVars, stopped, target, closeCalls,
                   cVars, sVars>>

\* variant: the assignment s.stopped = true is missing
proxy_Wake_NoStop ==
    /\ hpc = "waiting"
    /\ notified
    /\ hpc' = "ret"
    /\ UNCHANGED <<envVars, sessVars, ret, errs, hsVars, stopped, target, closeCalls,
                   notified, cVars, sVars>>

\* Wait returns; stop.L.Unlock(); s.stopped = true
proxy_Wake ==
    /\ hpc = "waiting"
    /\ notified
    /\ hpc' = "ret"
    /\ stopped' = TRUE
    /\ UNCHANGED <<envVars, sessVars, ret, errs, hsVars, target, closeCalls, notified,
                   cVars, sVars>>

\* if len(errs) > 0 { return errs[0] }; return nil
proxy_Return ==
    /\ hpc = "ret"
    /\ hpc' = "done"
    /\ ret' = IF Len(errs) > 0 THEN errs[1] ELSE Nil
    /\ UNCHANGED <<envVars, sessVars, errs, hsVars, stopped, target, closeCalls, notified,
                   cVars, sVars>>

----------------------------------------------------------------------------
(* proxyServerMessages *)

\* for !s.stopped
proxyServerMessages_Check ==
    /\ spc = "check"
    /\ \E seen \in ReadStopped(stopped) :
         spc' = IF seen THEN "final" ELSE "parse"
    /\ UNCHANGED <<envVars, sessVars, ctlVars, hsVars, stopped, target, closeCalls,
                   notified, cVars, sErrs, buf, sParsed, sLog, sWriteErr,
                   clientWrites>>

\* msg, err := s.ParseServerResponse(); on error errs = append(errs, err);
\* otherwise buf = append(buf, msg) and the flush decision
proxyServerMessages_Parse ==
    /\ spc = "parse"
    /\ \E r \in ServerReads(sParsed, target, limits),
          seen \in ReadStopped(stopped) :
         /\ sLog' = Append(sLog, LogEntry(r.err, seen))
         /\ firstErr' = IF firstErr = "none" /\ r.err # Nil THEN r.err
                       ELSE firstErr
         /\ IF r.err # Nil
            THEN /\ sErrs' = Append(sErrs, r.err)
                 /\ spc' = "bcast"
                 /\ UNCHANGED <<buf, sParsed>>
            ELSE /\ sParsed' = Append(sParsed, r.msg)
                 /\ buf' = Append(buf, r.msg)
                 /\ spc' = IF ShouldFlush(r.msg, buf') THEN "flush" ELSE "check"
                 /\ UNCHANGED sErrs
    /\ UNCHANGED <<limits, sessVars, ctlVars, hsVars, stopped, target, closeCalls,
                   notified, cVars, sWriteErr, clientWrites>>

\* stop.Broadcast(); break
proxyServerMessages_Broadcast ==
    /\ spc = "bcast"
    /\ notified' = Broadcast(hpc, notified)
    /\ spc' = "final"
    /\ UNCHANGED <<envVars, sessVars, ctlVars, hsVars, stopped, target, closeCalls,
                   cVars, sErrs, buf, sParsed, sLog, sWriteErr, clientWrites>>

\* variant: buf = nil is missing after the write
proxyServerMessages_Flush_KeepBuf ==
    /\ spc = "flush"
    /\ clientWrites' = Append(clientWrites, Write("proxyServerMessages", buf))
    /\ \E ok \in WriteOutcomes(client, limits) : sWriteErr' = (sWriteErr \/ ~ok)
    /\ spc' = "check"
    /\ UNCHANGED <<envVars, sessVars, ctlVars, hsVars, stopped, target,
                   closeCalls, notified, cVars, sErrs, buf, sParsed, sLog>>

\* pgproto.WriteMessages(buf, s.client); buf = nil (the error is dropped)
proxyServerMessages_Flush ==
    /\ spc = "flush"
    /\ clientWrites' = Append(clientWrites, Write("proxyServerMessages", buf))
    /\ buf' = <<>>
    /\ \E ok \in WriteOutcomes(client, limits) : sWriteErr' = (sWriteErr \/ ~ok)
    /\ spc' = "check"
    /\ UNCHANGED <<envVars, sessVars, ctlVars, hsVars, stopped, target, closeCalls,
                   notified, cVars, sErrs, sParsed, sLog>>

\* variant: the write after the loop is missing
proxyServerMessages_Final_NoFlush ==
    /\ spc = "final"
    /\ spc' = "done"
    /\ UNCHANGED <<envVars, sessVars, ctlVars, hsVars, stopped, target, closeCalls,
                   notified, cVars, sErrs, buf, sParsed, sLog, sWriteErr,
                   clientWrites>>

\* after the loop: if len(buf) > 0 { pgproto.WriteMessages(buf, s.client) }
proxyServerMessages_Final ==
    /\ spc = "final"
    /\ spc' = "done"
    /\ IF Len(buf) > 0
       THEN /\ clientWrites' = Append(clientWrites,
                                      Write("proxyServerMessages", buf))
            /\ \E ok \in WriteOutcomes(client, limits) : sWriteErr' = (sWriteErr \/ ~ok)
       ELSE UNCHANGED <<clientWrites, sWriteErr>>
    /\ UNCHANGED <<envVars, sessVars, ctlVars, hsVars, stopped, target, closeCalls,
                   notified, cVars, sErrs, buf, sParsed, sLog>>

----------------------------------------------------------------------------
(* proxyClientMessages *)

\* for !s.stopped
proxyClientMessages_Check ==
    /\ cpc = "check"
    /\ \E seen \in ReadStopped(stopped) :
         cpc' = IF seen THEN "done" ELSE "parse"
    /\ UNCHANGED <<envVars, sessVars, ctlVars, hsVars, stopped, target, closeCalls,
                   notified, cErrs, cMsg, cParsed, cLog, cWriteErr,
                   targetWrites, sVars>>

\* msg, err := s.ParseClientRequest(); on error errs = append(errs, err)
proxyClientMessages_Parse ==
    /\ cpc = "parse"
    /\ \E r \in ClientReads(cParsed, limits), seen \in ReadStopped(stopped) :
         /\ cLog' = Append(cLog, LogEntry(r.err, seen))
         /\ firstErr' = IF firstErr = "none" /\ r.err # Nil THEN r.err
                       ELSE firstErr
         /\ IF r.err # Nil
            THEN /\ cErrs' = Append(cErrs, r.err)
                 /\ cpc' = "bcast"
                 /\ UNCHANGED <<cMsg, cParsed>>
            ELSE /\ cParsed' = Append(cParsed, r.msg)
                 /\ cMsg' = r.msg
                 /\ cpc' = "write"
                 /\ UNCHANGED cErrs
    /\ UNCHANGED <<limits, sessVars, ctlVars, hsVars, stopped, target, closeCalls,
                   notified, cWriteErr, targetWrites, sVars>>

\* stop.Broadcast(); break
proxyClientMessages_Broadcast ==
    /\ cpc = "bcast"
    /\ notified' = Broadcast(hpc, notified)
    /\ cpc' = "done"
    /\ UNCHANGED <<envVars, sessVars, ctlVars, hsVars, stopped, target, closeCalls,
                   cErrs, cMsg, cParsed, cLog, cWriteErr, targetWrites, sVars>>

\* variant: the message is written with WriteToClient
proxyClientMessages_Forward_ToClient ==
    /\ cpc = "write"
    /\ clientWrites' = Append(clientWrites,
                              Write("proxyClientMessages", <<cMsg>>))
    /\ \E ok \in WriteOutcomes(client, limits) :
         cWriteErr' = (cWriteErr \/ ~ok)
    /\ cpc' = IF cMsg.t = "Termination" THEN "done" ELSE "check"
    /\ UNCHANGED <<envVars, sessVars, ctlVars, hsVars, stopped, target,
                   closeCalls, notified, cErrs, cMsg, cParsed, cLog,
                   targetWrites, spc, sErrs, buf, sParsed, sLog, sWriteErr>>

\* variant: the break on Termination is missing
proxyClientMessages_Forward_NoBreak ==
    /\ cpc = "write"
    /\ targetWrites' = Append(targetWrites,
                              Write("proxyClientMessages", <<cMsg>>))
    /\ \E ok \in WriteOutcomes(target, limits) :
         cWriteErr' = (cWriteErr \/ ~ok)
    /\ cpc' = "check"
    /\ UNCHANGED <<envVars, sessVars, ctlVars, hsVars, stopped, target,
                   closeCalls, notified, cErrs, cMsg, cParsed, cLog, sVars>>

\* s.WriteToServer(msg) (the error is dropped); break on Termination
proxyClientMessages_Forward ==
    /\ cpc = "write"
    /\ targetWrites' = Append(targetWrites,
                              Write("proxyClientMessages", <<cMsg>>))
    /\ \E ok \in WriteOutcomes(target, limits) :
         cWriteErr' = (cWriteErr \/ ~ok)
    /\ cpc' = IF cMsg.t = "Termination" THEN "done" ELSE "check"
    /\ UNCHANGED <<envVars, sessVars, ctlVars, hsVars, stopped, target, closeCalls,
                   notified, cErrs, cMsg, cParsed, cLog, sVars>>

----------------------------------------------------------------------------
(* Specifications *)

Controller ==
    \/ Handle_Authenticate
    \/ GetUserPassword_Write
    \/ GetUserPassword_Read
    \/ Handle_AuthReturn
    \/ Handle_AuthFailed
    \/ proxy_Start
    \/ proxy_Wait
    \/ proxy_Wake
    \/ proxy_Return

ServerDirection ==
    \/ proxyServerMessages_Check
    \/ proxyServerMessages_Parse
    \/ proxyServerMessages_Broadcast
    \/ proxyServerMessages_Flush
    \/ proxyServerMessages_Final

ClientDirection ==
    \/ proxyClientMessages_Check
    \/ proxyClientMessages_Parse
    \/ proxyClientMessages_Broadcast
    \/ proxyClientMessages_Forward

Next ==
    \/ Controller
    \/ ServerDirection
    \/ ClientDirection
    \/ Close

Spec == Init /\ [][Next]_vars

\* long backend streams, for the batching policy of proxyServerMessages
BatchSpec == InitBatch /\ [][Next]_vars

\* the Go scheduler runs every runnable goroutine eventually
NextHandshake ==
    \/ parseStartupMessage
    \/ Listener_Dial
    \/ Next

HandshakeSpec == InitHandshake /\ [][NextHandshake]_vars

FairSpec ==
    /\ Init
    /\ [][Next]_vars
    /\ WF_vars(Controller)
    /\ WF_vars(ServerDirection)
    /\ WF_vars(ClientDirection)

----------------------------------------------------------------------------
(* Derived notions used by the properties *)

AuthSucceeded == authRes = [success |-> TRUE, err |-> Nil]
AuthRejected == authRes = [success |-> FALSE, err |-> Nil]
AuthErrored == authRes.err \in AuthErrors

\* a direction has called stop.Broadcast()
ServerSignalled == sErrs # <<>> /\ spc \in {"final", "done"}
ClientSignalled == cErrs # <<>> /\ cpc = "done"

\* the forwarding loop has been started
LoopStarted == spc # "idle" \/ cpc # "idle"

\* Handle() has returned, through proxy()
ReturnedFromProxy == hpc = "done" /\ LoopStarted

\* write calls on s.client made by the response direction
ServerWrites == WritesBy(clientWrites, "proxyServerMessages")

\* write calls on s.client not made by GetUserPassword
OwnClientWrites == SelectSeq(clientWrites, LAMBDA w : w.by # "GetUserPassword")

----------------------------------------------------------------------------
(* C1 - first error wins *)

\* C1: if a parse of the forwarding loop fails with an error other than
\* end-of-stream and no direction recorded an error before it, Handle()
\* returns exactly that error.
C1_FirstErrorReturned ==
    (ReturnedFromProxy /\ firstErr \notin {"none", EOF}) => ret = firstErr

----------------------------------------------------------------------------
(* C2 - Handle() runs to completion *)

\* C2: once authentication has succeeded and a direction has signalled stop,
\* the controlling call in proxy() eventually wakes, sets stopped and
\* returns, whatever the interleaving.
C2_EventuallyReturns ==
    (AuthSucceeded /\ (ServerSignalled \/ ClientSignalled))
        ~> (stopped /\ hpc = "done")

----------------------------------------------------------------------------
(* C3 - authentication rejected *)

\* C3: when Authenticate returns (false, nil), Handle() writes exactly one
\* message to the client, an Error of severity Fatal, returns nil, never
\* starts a forwarding direction and writes nothing to the backend.
C3_AuthRejected ==
    AuthRejected =>
        /\ hpc \in {"authfail", "done"}
        /\ ~LoopStarted
        /\ targetWrites = <<>>
        /\ hpc = "authfail" => OwnClientWrites = <<>>
        /\ hpc = "done" =>
             /\ ret = Nil
             /\ OwnClientWrites = <<Write("Handle", <<FatalError>>)>>

C3_Witness ==
    /\ AuthRejected
    /\ hpc = "done"
    /\ Len(clientWrites) = 2
    /\ Last(clientWrites).msgs = <<FatalError>>

----------------------------------------------------------------------------
(* C4 - authentication error *)

\* C4: when Authenticate returns an error, Handle() returns that error
\* unchanged, writes nothing and never starts the forwarding loop; the loop
\* is started only after Authenticate returned (true, nil); Authenticate is
\* called exactly once per Handle().
C4_AuthError ==
    /\ AuthErrored =>
         /\ hpc = "done"
         /\ ret = authRes.err
         /\ OwnClientWrites = <<>>
         /\ targetWrites = <<>>
         /\ ~LoopStarted
    /\ (LoopStarted \/ hpc \in {"proxy", "wait", "waiting", "ret"})
         => AuthSucceeded
    /\ authCalls = (IF hpc = "start" THEN 0 ELSE 1)

C4_Witness ==
    /\ AuthErrored
    /\ hpc = "done"
    /\ ret = "auth plugin failure"
    /\ prompts = 1

----------------------------------------------------------------------------
(* C5 - end-of-stream is a normal termination *)

OnlyEOF(es) == \A i \in 1..Len(es) : es[i] = EOF

NoErrorLogForEOF(log) ==
    \A i \in 1..Len(log) : log[i].res = EOF => log[i].log = "none"

\* C5: a parse that returns end-of-stream emits no error-level log event,
\* and when end-of-stream is the only terminal condition of the forwarding
\* loop Handle() returns nil; end-of-stream is never the value returned.
C5_EOFIsNormal ==
    /\ NoErrorLogForEOF(sLog)
    /\ NoErrorLogForEOF(cLog)
    /\ ret # EOF
    /\ (ReturnedFromProxy /\ OnlyEOF(sErrs) /\ OnlyEOF(cErrs)) => ret = Nil

C5_Witness ==
    /\ ReturnedFromProxy
    /\ sErrs = <<EOF>>
    /\ cErrs = <<EOF>>
    /\ ret = Nil
    /\ Last(sLog) = [res |-> EOF, log |-> "none"]

----------------------------------------------------------------------------
(* C6 - the stopped flag *)

\* C6: stopped is false from construction, changes at most once, only from
\* false to true, and is true whenever Handle() has returned from the
\* forwarding loop.
C6_StoppedOnce ==
    /\ ~stopped
    /\ [][stopped => stopped']_vars
    /\ [](ReturnedFromProxy => stopped)

C6_Witness == ReturnedFromProxy /\ stopped /\ spc = "parse"

----------------------------------------------------------------------------
(* C7 - size of the outbound buffer *)

\* C7: the outbound buffer of the response direction never holds more than
\* 15 messages, the flush decision for the message just appended included.
C7_BufferAtMost15 == Len(buf) <= 15

\* C7 as amended: the buffer never holds more than 16 messages, and it holds
\* 16 only between the decision to flush and the write that empties it; at
\* every loop-condition check it holds at most 15.
C7_BufferAtMost16 ==
    /\ Len(buf) <= FlushThreshold + 1
    /\ Len(buf) = FlushThreshold + 1 => spc = "flush"
    /\ spc = "check" => Len(buf) <= FlushThreshold

C7_Witness ==
    /\ spc = "flush"
    /\ Len(buf) = 16
    /\ Last(buf).t = "DataRow"
    /\ ServerWrites = <<>>

----------------------------------------------------------------------------
(* C8 - twenty messages without a synchronisation point *)

ForcesFlush(m) ==
    \/ m.t = "ReadyForQuery"
    \/ m.t = "AuthenticationRequest" /\ m.method # "OK"

\* the backend has sent 20 messages, none a ReadyForQuery or a non-OK
\* AuthenticationRequest, and the response direction has ended
TwentyThenEnd ==
    /\ Len(sParsed) = 20
    /\ \A i \in 1..20 : ~ForcesFlush(sParsed[i])
    /\ spc = "done"

\* C8: in that run exactly two batched writes reach the client, the first
\* right after the 15th message with 15 messages, the second with the
\* remaining 5.
C8_FifteenThenFive ==
    TwentyThenEnd =>
        /\ Len(ServerWrites) = 2
        /\ ServerWrites[1].msgs = SubSeq(sParsed, 1, 15)
        /\ ServerWrites[2].msgs = SubSeq(sParsed, 16, 20)

\* C8 as amended: exactly two batched writes reach the client, the first
\* right after the 16th message with 16 messages, the second with the
\* remaining 4 when the direction ends.
C8_SixteenThenFour ==
    /\ TwentyThenEnd =>
         /\ Len(ServerWrites) = 2
         /\ ServerWrites[1].msgs = SubSeq(sParsed, 1, 16)
         /\ ServerWrites[2].msgs = SubSeq(sParsed, 17, 20)
    /\ (\A i \in 1..Len(sParsed) : ~ForcesFlush(sParsed[i])) =>
         /\ (Len(sParsed) < 16 /\ spc # "done") => ServerWrites = <<>>
         /\ (Len(sParsed) = 16 /\ spc \in {"check", "parse"})
              => Len(ServerWrites) = 1
         /\ (Len(sParsed) > 16 /\ spc # "done") => Len(ServerWrites) = 1

C8_Witness ==
    /\ TwentyThenEnd
    /\ Len(ServerWrites) = 2
    /\ Len(ServerWrites[1].msgs) = 16
    /\ Len(ServerWrites[2].msgs) = 4

----------------------------------------------------------------------------
(* C9 - ReadyForQuery *)

\* the last server message parsed is m, and whether it has been flushed
LastParsed(P(_)) == sParsed # <<>> /\ P(Last(sParsed))

IsReadyForQuery(m) == m.t = "ReadyForQuery"
IsAuthChallenge(m) == m.t = "AuthenticationRequest" /\ m.method # "OK"
IsAuthOK(m) == m.t = "AuthenticationRequest" /\ m.method = "OK"

\* Once a message that forces a flush is the last one parsed, either the
\* write of the buffer holding it is the next step of the direction, or the
\* buffer is empty and all that was parsed has been written, in order.
FlushedBeforeNextParse ==
    IF spc = "flush"
    THEN /\ buf # <<>>
         /\ Flatten(ServerWrites) \o buf = sParsed
    ELSE /\ buf = <<>>
         /\ Flatten(ServerWrites) = sParsed

\* C9: as soon as a ReadyForQuery has been appended the buffer is written to
\* the client before the next server message is parsed; after that flush the
\* buffer is empty and every message parsed so far has been written.
C9_ReadyForQueryFlushes == LastParsed(IsReadyForQuery) => FlushedBeforeNextParse

C9_Witness ==
    /\ LastParsed(IsReadyForQuery)
    /\ Len(sParsed) = 3
    /\ spc = "parse"
    /\ buf = <<>>
    /\ Len(ServerWrites) = 1
    /\ ServerWrites[1].msgs = sParsed

----------------------------------------------------------------------------
(* C10 - AuthenticationRequest *)

\* C10: an AuthenticationRequest whose method is not OK is flushed, with
\* everything buffered before it, before the next server message is parsed,
\* whatever the buffer length; one whose method is OK does not by itself
\* trigger a flush.
C10_AuthChallengeFlushes ==
    /\ LastParsed(IsAuthChallenge) => FlushedBeforeNextParse
    /\ LastParsed(IsAuthOK) =>
         /\ spc = "flush" => Len(buf) > FlushThreshold
         /\ spc \in {"check", "parse"} =>
              /\ Flatten(ServerWrites) \o buf = sParsed
              /\ \/ buf # <<>> /\ Last(buf) = Last(sParsed)
                 \/ /\ buf = <<>>
                    /\ Len(Last(ServerWrites).msgs) = FlushThreshold + 1

C10_Witness ==
    /\ LastParsed(IsAuthChallenge)
    /\ Len(sParsed) = 7
    /\ spc = "check"
    /\ buf = <<>>
    /\ ServerWrites = <<Write("proxyServerMessages", sParsed)>>

----------------------------------------------------------------------------
(* C11 - order within a direction *)

IsPrefix(a, b) == Len(a) <= Len(b) /\ SubSeq(b, 1, Len(a)) = a

\* client messages parsed by proxyClientMessages
LoopParsed == SubSeq(cParsed, hsParsed + 1, Len(cParsed))

\* C11: what has been written to the client is a prefix of the server
\* messages parsed, and equal to it once the response direction has ended;
\* what has been written to the backend is a prefix of the client messages
\* parsed by the request direction, one message per write, each written
\* before the next one is parsed.
C11_OrderPreserved ==
    /\ IsPrefix(Flatten(ServerWrites), sParsed)
    /\ spc # "done" => Flatten(ServerWrites) \o buf = sParsed
    /\ spc = "done" => Flatten(ServerWrites) = sParsed
    /\ IsPrefix(Flatten(targetWrites), LoopParsed)
    /\ \A i \in 1..Len(targetWrites) : Len(targetWrites[i].msgs) = 1
    /\ cpc = "write" => Flatten(targetWrites) \o <<cMsg>> = LoopParsed
    /\ cpc # "write" => Flatten(targetWrites) = LoopParsed

C11_Witness ==
    /\ spc = "done"
    /\ Len(sParsed) = 2
    /\ Len(ServerWrites) = 2
    /\ cpc = "parse"
    /\ Len(targetWrites) = 2
    /\ Flatten(targetWrites) = cParsed

----------------------------------------------------------------------------
(* C12 - Termination *)

TerminationParsed ==
    \E i \in 1..Len(LoopParsed) : LoopParsed[i].t = "Termination"

\* C12: a Termination parsed by the request direction is forwarded to the
\* backend and then ends the direction: it is the last client message parsed
\* and the last one forwarded, no parse is attempted after it, and its parse
\* logged a debug event, not an error.
C12_TerminationEnds ==
    TerminationParsed =>
        /\ Last(cParsed).t = "Termination"
        /\ \A i \in 1..(Len(LoopParsed) - 1) : LoopParsed[i].t # "Termination"
        /\ Last(cLog) = [res |-> Nil, log |-> "debug"]
        /\ cpc \in {"write", "done"}
        /\ cpc = "write" => cMsg = Last(cParsed)
        /\ cpc = "done" => Last(targetWrites).msgs = <<Last(cParsed)>>

C12_Witness ==
    /\ TerminationParsed
    /\ cpc = "done"
    /\ Len(LoopParsed) = 2
    /\ Len(targetWrites) = 2
    /\ Last(targetWrites).msgs[1].t = "Termination"
    /\ cErrs = <<>>


----------------------------------------------------------------------------
(* C13 *)

IsError(e) == e \notin {Nil, "none"}

\* C13: a call of GetUserPassword(method) first hands the client connection
\* one AuthenticationRequest with that method and the session's salt, without
\* reading and without touching the stored password, and returns the error
\* of a failed write at once; otherwise its next step reads exactly one
\* client message and writes nothing: a PasswordMessage is stored on the
\* session and returned with the request, anything else returns an error and
\* leaves the stored password as it was.
C13_GetUserPassword ==
    [][ /\ prompts' # prompts =>
            /\ gupRet'.method \in AuthMethods
            /\ clientWrites' = Append(clientWrites,
                    Write("GetUserPassword",
                          <<AuthRequest(gupRet'.method, Salt)>>))
            /\ cLog' = cLog
            /\ cParsed' = cParsed
            /\ password' = password
            /\ gupRet'.pwd = NoMsg
            /\ \/ hpc' = "pwread" /\ gupRet'.err = "none"
               \/ hpc' = "auth" /\ gupRet'.err = ErrClientWrite
        /\ hpc = "pwread" =>
            /\ Len(cLog') = Len(cLog) + 1
            /\ clientWrites' = clientWrites
            /\ hpc' = "auth"
            /\ gupRet'.method = gupRet.method
            /\ IF cParsed' # cParsed /\ Last(cParsed').t = "PasswordMessage"
               THEN /\ cParsed' = Append(cParsed, password')
                    /\ gupRet'.pwd = password'
                    /\ gupRet'.auth = AuthRequest(gupRet.method, Salt)
                    /\ gupRet'.err = Nil
               ELSE /\ IsError(gupRet'.err)
                    /\ gupRet'.pwd = NoMsg
                    /\ gupRet'.auth = NoMsg
                    /\ password' = password
      ]_vars

\* a call that asked for a clear-text password has returned the credential
C13_Witness ==
    /\ hpc = "auth"
    /\ gupRet.method = "Plain"
    /\ gupRet.err = Nil
    /\ gupRet.pwd.t = "PasswordMessage"
    /\ password = gupRet.pwd
    /\ Last(clientWrites).msgs = <<gupRet.auth>>


----------------------------------------------------------------------------
(* C14 *)

\* C14: a call of parseStartupMessage makes exactly one read of the client
\* connection. An SSL request is returned as it was read and leaves User and
\* Database as they were; a startup message that is no SSL request and has
\* both options is returned and sets User and Database to their values; a
\* failed read, a message of another type and a startup message without one
\* of the options give an error and no startup message.
C14_StartupParsing ==
    [][ hpc = "new" =>
          /\ Len(cLog') = Len(cLog) + 1
          /\ Len(cParsed') <= Len(cParsed) + 1
          /\ IF cParsed' = cParsed \/ Last(cParsed').t # "StartupMessage"
             THEN /\ IsError(startupRet'.err)
                  /\ startupRet'.msg = NoMsg
                  /\ user' = user /\ database' = database
             ELSE IF Last(cParsed').ssl
             THEN /\ startupRet' = [msg |-> Last(cParsed'), err |-> Nil]
                  /\ user' = user /\ database' = database
             ELSE IF {"user", "database"} \subseteq DOMAIN Last(cParsed').opts
             THEN /\ startupRet' = [msg |-> Last(cParsed'), err |-> Nil]
                  /\ user' = Last(cParsed').opts["user"]
                  /\ database' = Last(cParsed').opts["database"]
             ELSE /\ IsError(startupRet'.err)
                  /\ startupRet'.msg = NoMsg
      ]_vars

\* the options {user: alice, database: app}, sent after an SSL request, have
\* been parsed
C14_Witness ==
    /\ hpc = "parsed"
    /\ Len(cParsed) = 2
    /\ cParsed[1].ssl
    /\ startupRet = [msg |-> cParsed[2], err |-> Nil]
    /\ ~cParsed[2].ssl
    /\ user = "alice"
    /\ database = "app"


----------------------------------------------------------------------------
(* C15 *)

\* the session and its connections, without the count of calls of Close
SessionState ==
    <<envVars, sessVars, ctlVars, hsVars, stopped, target, notified, cVars,
      sVars>>

\* C15: a call of Close leaves the client connection as it is, closes the
\* backend connection of a session that has one and changes nothing else,
\* changes nothing at all in a session without backend connection, and
\* changes nothing when Close has been called before.
C15_Close ==
    [][ closeCalls' # closeCalls =>
          /\ client' = client
          /\ client = "open"
          /\ target' = IF target = "nil" THEN "nil" ELSE "closed"
          /\ UNCHANGED <<envVars, sessVars, ctlVars, hsVars, stopped, notified,
                         cVars, sVars>>
          /\ target = "nil" => UNCHANGED SessionState
          /\ closeCalls > 0 => UNCHANGED SessionState
      ]_vars

\* Close has been called twice on a session with a backend connection
C15_Witness ==
    /\ closeCalls = 2
    /\ hpc = "done"
    /\ target = "closed"
    /\ client = "open"

\* Close has been called twice on a session without backend connection
C15_WitnessNoBackend ==
    /\ closeCalls = 2
    /\ hpc = "rejected"
    /\ target = "nil"


----------------------------------------------------------------------------
(* C16 *)

\* a direction has recorded its error, called stop.Broadcast() and returned
ServerEnded == spc = "done" /\ sErrs # <<>>
ClientEnded == cpc = "done" /\ cErrs # <<>>

\* C16: once one direction has ended and fired the stop signal, a parse of
\* the other direction that fails with an error other than end-of-stream
\* reports no error-level event.
C16_NoErrorLogAfterStop ==
    [][ /\ (ServerEnded /\ cLog' # cLog) => Last(cLog').log # "error"
        /\ (ClientEnded /\ sLog' # sLog) => Last(sLog').log # "error"
      ]_vars

----------------------------------------------------------------------------
(* C17 *)

\* C17: a direction whose write has failed parses no further message, and
\* has recorded an error when it ends.
C17_WriteErrorTerminates ==
    [][ /\ cWriteErr => cLog' = cLog
        /\ sWriteErr => sLog' = sLog
        /\ (cWriteErr' /\ cpc' = "done") => cErrs' # <<>>
        /\ (sWriteErr' /\ spc' = "done") => sErrs' # <<>>
      ]_vars

----------------------------------------------------------------------------
(* C18 *)

\* C18: every parse reports exactly one event, a debug-level one when it
\* succeeds and an error-level one when it fails while the session is not
\* stopped; a parse reports no event only if it fails once the session is
\* stopped.  (old and new are a log before and after a step, halted the
\* value of stopped when the step is taken.)
ReportsOneEvent(old, new, halted) ==
    new # old =>
        /\ new = Append(old, Last(new))
        /\ Last(new).res = Nil => Last(new).log = "debug"
        /\ (Last(new).res # Nil /\ ~halted) => Last(new).log = "error"
        /\ Last(new).log = "none" => (Last(new).res # Nil /\ halted)

C18_ExactlyOneEvent ==
    [][ /\ ReportsOneEvent(cLog, cLog', stopped)
        /\ ReportsOneEvent(sLog, sLog', stopped)
      ]_vars

\* C18, amended: every parse reports at most one event: a debug-level event
\* when it succeeds, no event when it returns end-of-stream, an error-level
\* event when it fails otherwise while the session is not stopped, and no
\* event or an error-level event when it fails otherwise once the session is
\* stopped.
ReportsAtMostOneEvent(old, new, halted) ==
    new # old =>
        /\ new = Append(old, Last(new))
        /\ Last(new).res = Nil => Last(new).log = "debug"
        /\ Last(new).res = EOF => Last(new).log = "none"
        /\ (Last(new).res \notin {Nil, EOF} /\ ~halted) =>
               Last(new).log = "error"
        /\ (Last(new).res \notin {Nil, EOF} /\ halted) =>
               Last(new).log \in {"none", "error"}

C18_AtMostOneEvent ==
    [][ /\ ReportsAtMostOneEvent(cLog, cLog', stopped)
        /\ ReportsAtMostOneEvent(sLog, sLog', stopped)
      ]_vars

\* before the session is stopped, the backend has hung up without an event,
\* and the client's first message was reported at debug level and the
\* failure of its next read at error level
C18_Witness ==
    /\ ~stopped
    /\ sLog = <<[res |-> EOF, log |-> "none"]>>
    /\ Len(cLog) = 2
    /\ cLog[1] = [res |-> Nil, log |-> "debug"]
    /\ cLog[2] = [res |-> ErrClientParse, log |-> "error"]

----------------------------------------------------------------------------
(* C19 *)

\* positions of the controlling call before proxy() starts the directions
HandshakePositions == {"new", "parsed", "start", "auth", "pwread", "authfail"}

\* the units whose next step may write to s.client
ClientWriters ==
    { u \in {"Handle", "proxyServerMessages"} :
        \/ u = "Handle" /\ hpc \in {"auth", "authfail"}
        \/ u = "proxyServerMessages" /\ spc \in {"flush", "final"} }

\* C19: the backend connection is written by the request direction only;
\* the client connection is written by GetUserPassword and Handle during the
\* handshake and by the response direction afterwards, never by a handshake
\* write after a write of the response direction; the directions are started
\* only when the handshake is over, and at no time can two units write to
\* the client connection.
C19_SingleWriter ==
    /\ \A i \in 1..Len(targetWrites) :
          targetWrites[i].by = "proxyClientMessages"
    /\ \A i \in 1..Len(clientWrites) :
          clientWrites[i].by \in {"GetUserPassword", "Handle",
                                  "proxyServerMessages"}
    /\ \A i, j \in 1..Len(clientWrites) :
          (i < j /\ clientWrites[i].by = "proxyServerMessages")
              => clientWrites[j].by = "proxyServerMessages"
    /\ LoopStarted => hpc \notin HandshakePositions
    /\ hpc \in HandshakePositions => ServerWrites = <<>> /\ targetWrites = <<>>
    /\ Cardinality(ClientWriters) <= 1

\* after a password prompt both directions are running and each has written
\* to its connection
C19_Witness ==
    /\ clientWrites # <<>>
    /\ clientWrites[1].by = "GetUserPassword"
    /\ Last(clientWrites).by = "proxyServerMessages"
    /\ targetWrites # <<>>
    /\ spc \notin {"idle", "done"}
    /\ cpc \notin {"idle", "done"}

----------------------------------------------------------------------------
(* C20 *)

\* C20: once stopped is true, a direction that comes to its loop condition
\* leaves the loop: the response direction goes on to write what is left in
\* its buffer, the request direction returns; neither parses again.
C20_AtMostOneParseAfterStop ==
    [][ /\ (stopped /\ spc = "check" /\ spc' # spc) => spc' = "final"
        /\ (stopped /\ cpc = "check" /\ cpc' # cpc) => cpc' = "done"
      ]_vars

====
